---- MODULE Spec2Model ----
(***************************************************************************)
(* Vocabulary trainer: the session engine.                                 *)
(*                                                                         *)
(*   App            handleStartGame / handleReplay / handleExitGame        *)
(*   useTimer       the countdown hook                                     *)
(*   MatchingGame   the "find the pairs" round engine                      *)
(*   ChoiceGame     the "pick the translation" round engine                *)
(*   HistoryManager the localStorage history store                         *)
(*                                                                         *)
(* Texts are sequences of one-character strings, so that trim() and        *)
(* toLowerCase() are computed.  An id is a sequence of string segments,    *)
(* so that `id + '_dir'` is a concatenation.  Times are integers in units  *)
(* of 1/(10*D) second, D the divisor of the acceleration step, so that     *)
(* the 0.1 s tick and the step (start - end) / D are exact.                *)
(***************************************************************************)
EXTENDS Naturals, Integers, Sequences, FiniteSets

(***************************************************************************)
(* Bounds of the model.                                                    *)
(***************************************************************************)
MaxPool == 2
MaxQuestions == 3
MaxWordCount == 1

\* The wrong answers followed within one game.
MaxMistakes == 1

(***************************************************************************)
(* Generic helpers (JavaScript array semantics).                           *)
(***************************************************************************)
Min(a, b) == IF a < b THEN a ELSE b
Max(a, b) == IF a > b THEN a ELSE b

Range(s) == { s[i] : i \in 1..Len(s) }

\* Array.prototype.slice(0, n) for n >= 0.
Take(s, n) == SubSeq(s, 1, Min(n, Len(s)))

\* Array.prototype.filter.
RECURSIVE FilterSeq(_, _)
FilterSeq(s, keep) ==
    IF s = <<>> THEN <<>>
    ELSE (IF Head(s) \in keep THEN <<Head(s)>> ELSE <<>>) \o FilterSeq(Tail(s), keep)

\* Every order a shuffle (sort with a random comparator, Fisher-Yates) can produce.
Shuffles(s) ==
    { [i \in 1..Len(s) |-> s[f[i]]] :
        f \in { g \in [1..Len(s) -> 1..Len(s)] :
                  \A i, j \in 1..Len(s) : i # j => g[i] # g[j] } }

\* Sequences over S of length lo..hi.
SeqsOf(S, lo, hi) == UNION { [1..n -> S] : n \in lo..hi }

(***************************************************************************)
(* Texts: String.prototype.trim and toLowerCase.                           *)
(***************************************************************************)
LowerChar(c) == IF c = "A" THEN "a" ELSE IF c = "B" THEN "b" ELSE c

ToLowerCase(t) == [i \in 1..Len(t) |-> LowerChar(t[i])]

RECURSIVE TrimStart(_)
TrimStart(t) == IF t # <<>> /\ Head(t) = " " THEN TrimStart(Tail(t)) ELSE t

RECURSIVE TrimEnd(_)
TrimEnd(t) ==
    IF t # <<>> /\ t[Len(t)] = " " THEN TrimEnd(SubSeq(t, 1, Len(t) - 1)) ELSE t

Trim(t) == TrimEnd(TrimStart(t))

(***************************************************************************)
(* Words (types.ts) and the theme data.                                    *)
(***************************************************************************)
Word(id, source, target) == [id |-> <<id>>, val |-> <<source, target>>]

\* The words the themes may hold: w2 has the content of w1 up to case and
\* surrounding blanks, w3 is a different pair.
WordUniverse ==
    { Word("w1", <<"a">>, <<"b">>),
      Word("w2", <<"A", " ">>, <<"b">>),
      Word("w3", <<"c">>, <<"d">>) }

\* What DataManager.loadMultipleThemes can return for the selected themes.
RawPools == SeqsOf(WordUniverse, 0, MaxPool)


(***************************************************************************)
(* GameConfig (types.ts).  A missing optional number is 0 (falsy).         *)
(***************************************************************************)
Directions == {"ru-en", "en-ru"}
Modes == {"matching", "one-of-n"}
TimerModes == {"none", "global", "per-question", "acceleration"}

GameConfig(wc, tq, dir, mode, tm, tl, bs, oc, accStart, accEnd) ==
    [wordCount |-> wc, totalQuestions |-> tq, direction |-> dir, mode |-> mode,
     timerMode |-> tm, timeLimit |-> tl, batchSize |-> bs, optionsCount |-> oc,
     accelerationStart |-> accStart, accelerationEnd |-> accEnd,
     isReplay |-> FALSE, replaySessionId |-> 0]

\* activeConfig = null
NoConfig == [isReplay |-> FALSE, none |-> TRUE]

(***************************************************************************)
(* State.                                                                  *)
(***************************************************************************)
VARIABLES
    \* App (useState of App, and the locals of the last handleStartGame)
    themeData,        \* the words of the selected themes, as stored
    view,             \* 'dashboard' | 'game' | 'history'
    activeConfig,
    activeWords,
    dictionary,
    totalThemeWords,
    alertShown,       \* the last alert() of a handler, "none" if it raised none
    allThemeWords,    \* handleStartGame: the de-duplicated pool
    subset,           \* handleStartGame: the subset the sequence is built from
    playedWords,      \* history only: the sequence the stored session was played with
    themeEdited,      \* history only: the theme data changed after that session
    \* HistoryManager (localStorage)
    history,
    storageFull,      \* localStorage.setItem throws (quota exceeded or storage unavailable)
    \* useTimer of the mounted round engine
    timeLeft,
    currentLimit,
    isRunning,
    timeUpCalls,      \* history only: how often the interval has called onTimeUp
    \* both round engines
    isFinished,
    score,
    sessionLog,       \* sessionLogRef.current
    correctAnswers,   \* history only: the correct answers given so far
    appCrashed,       \* an error thrown while rendering or in an effect has unmounted the tree
    \* MatchingGame
    roundIndex,
    items,
    selectedLeft,
    selectedRight,
    matchesInRound,   \* the Set, in insertion order
    incorrectCount,
    hasSaved,         \* hasSaved.current
    isTransitioning,  \* isTransitioningRef.current
    advancePending,   \* the 300 ms timeout of the completion watcher and its closure
    firedRounds,      \* history only: the rounds whose completion timeout has run
    \* ChoiceGame
    batchIndex,
    mistakes,
    currentBatch,
    options,
    selectedQuestionId,
    resolvedIds,
    wrongIds,
    correctMatchIds,
    taintedQuestionIds,
    advanceTimer,     \* timerRef.current holds a live 400 ms timeout
    wrongGuessed,     \* history only: the questions of this batch answered wrongly so far
    ignoredOption     \* history only: the option of the last click, if that click
                      \* returned at "Must pick question first"

appVars == <<themeData, storageFull, view, activeConfig, activeWords, dictionary,
             totalThemeWords, alertShown, allThemeWords, subset,
             playedWords, themeEdited>>

timerVars == <<timeLeft, currentLimit, isRunning, timeUpCalls>>

engineVars == <<isFinished, appCrashed, score, sessionLog, correctAnswers>>

matchVars == <<roundIndex, items, selectedLeft, selectedRight, matchesInRound,
               incorrectCount, hasSaved, isTransitioning, advancePending, firedRounds>>

choiceVars == <<batchIndex, mistakes, currentBatch, options, selectedQuestionId,
                resolvedIds, wrongIds, correctMatchIds, taintedQuestionIds,
                advanceTimer, wrongGuessed, ignoredOption>>

gameVars == <<timerVars, engineVars, matchVars, choiceVars>>

vars == <<appVars, history, gameVars>>

(***************************************************************************)
(* App.handleStartGame                                                     *)
(***************************************************************************)
KeySeparator == <<"|", "|", "|">>

\* `${w.val[0].trim().toLowerCase()}|||${w.val[1].trim().toLowerCase()}`
ContentKey(w) ==
    ToLowerCase(Trim(w.val[1])) \o KeySeparator \o ToLowerCase(Trim(w.val[2]))

\* A filter that never records what it has seen.
RECURSIVE DedupFromForgetful(_, _)
DedupFromForgetful(raw, seenContent) ==
    IF raw = <<>> THEN <<>>
    ELSE IF ContentKey(Head(raw)) \in seenContent
         THEN DedupFromForgetful(Tail(raw), seenContent)
         ELSE <<Head(raw)>> \o DedupFromForgetful(Tail(raw), seenContent)

RECURSIVE DedupFrom(_, _)
DedupFrom(raw, seenContent) ==
    IF raw = <<>> THEN <<>>
    ELSE IF ContentKey(Head(raw)) \in seenContent
         THEN DedupFrom(Tail(raw), seenContent)
         ELSE <<Head(raw)>> \o DedupFrom(Tail(raw), seenContent \cup {ContentKey(Head(raw))})

Deduplicate(raw) == DedupFrom(raw, {})

\* config.wordCount > 0 ? shuffled.slice(0, config.wordCount) : shuffled
SubsetOf(shuffled, config) ==
    IF config.wordCount > 0 THEN Take(shuffled, config.wordCount) ELSE shuffled

DefaultQuestionCount == 20

\* config.totalQuestions || 20
QuestionCount(config) ==
    IF config.totalQuestions = 0 THEN DefaultQuestionCount ELSE config.totalQuestions

\* A fill loop that forgets to cut the last copy of the subset.
TrimToLengthOmitted(sequence, questionCount) == sequence

\* sequence.slice(0, questionCount)
TrimToLength(sequence, questionCount) == Take(sequence, questionCount)

\* The sequences the fill loop can build from `sequence`: append shuffled copies
\* of the subset while the sequence is shorter than questionCount, then trim.
RECURSIVE FillFrom(_, _, _)
FillFrom(sequence, sub, questionCount) ==
    IF Len(sequence) < questionCount
    THEN UNION { FillFrom(sequence \o chunk, sub, questionCount) : chunk \in Shuffles(sub) }
    ELSE { TrimToLength(sequence, questionCount) }

FillSequences(sub, questionCount) ==
    IF Len(sub) = 0 THEN { <<>> } ELSE FillFrom(<<>>, sub, questionCount)

SwapVal(w) == [w EXCEPT !.val = <<w.val[2], w.val[1]>>]

\* { ...w, id: w.id + '_dir', val: [w.val[1], w.val[0]] }
SwapWord(w) == [id |-> w.id \o <<"_dir">>, val |-> <<w.val[2], w.val[1]>>]

MapSeq(s, Op(_)) == [i \in 1..Len(s) |-> Op(s[i])]

ApplyDirection(sequence, config) ==
    IF config.direction = "en-ru" THEN MapSeq(sequence, SwapWord) ELSE sequence

DictionaryFor(pool, config) ==
    IF config.direction = "en-ru" THEN MapSeq(pool, SwapVal) ELSE pool

\* A resolver that takes every pool for a pool with words.
PoolIsEmptyNever(raw) == FALSE

\* if (allThemeWordsRaw.length === 0) { alert(...); return; }
PoolIsEmpty(raw) == Len(raw) = 0

HandleStartGame(config) ==
    /\ view = "dashboard"
    /\ \E loaded \in BOOLEAN :
         IF ~loaded
         THEN \* loadMultipleThemes rejects: the catch block
              /\ alertShown' = "loadError"
              /\ UNCHANGED <<themeData, storageFull, view, activeConfig, activeWords, dictionary,
                             totalThemeWords, allThemeWords, subset, history,
                             playedWords, themeEdited>>
         ELSE IF PoolIsEmpty(themeData)
         THEN /\ alertShown' = "noWords"
              /\ totalThemeWords' = 0
              /\ UNCHANGED <<themeData, storageFull, view, activeConfig, activeWords, dictionary,
                             allThemeWords, subset, history, playedWords, themeEdited>>
         ELSE \E shuffled \in Shuffles(Deduplicate(themeData)) :
              \E sequence \in FillSequences(SubsetOf(shuffled, config), QuestionCount(config)) :
                /\ totalThemeWords' = Len(themeData)
                /\ allThemeWords' = Deduplicate(themeData)
                /\ subset' = SubsetOf(shuffled, config)
                /\ activeWords' = ApplyDirection(sequence, config)
                /\ dictionary' = DictionaryFor(Deduplicate(themeData), config)
                /\ activeConfig' = config
                /\ view' = "game"
                /\ alertShown' = "none"
                /\ UNCHANGED <<themeData, storageFull, history, playedWords, themeEdited>>

StartGame(configs) ==
    /\ \E config \in configs : HandleStartGame(config)
    /\ UNCHANGED gameVars

(***************************************************************************)
(* App.handleExitGame                                                      *)
(***************************************************************************)
HandleExitGame ==
    /\ view = "game"
    /\ view' = IF activeConfig.isReplay THEN "history" ELSE "dashboard"
    /\ activeConfig' = NoConfig
    /\ activeWords' = <<>>
    /\ allThemeWords' = <<>>     \* the locals of the finished call are gone
    /\ subset' = <<>>
    /\ UNCHANGED <<themeData, storageFull, dictionary, totalThemeWords, alertShown,
                   playedWords, themeEdited>>

(***************************************************************************)
(* HistoryManager and the SessionLog the round engines write.              *)
(* Wall-clock fields (timestamp, timeTaken) are left out.                  *)
(***************************************************************************)
\* crypto.randomUUID() of the one game instance under study
FirstSessionId == 1

\* history.push(session); localStorage.setItem(...)
SaveSession(store, session) == Append(store, session)

\* The sessionLogRef a round engine creates when it mounts.
NewSessionLog(id, config, totalWords) ==
    [id |-> id, config |-> config, questions |-> <<>>, score |-> 0,
     mistakes |-> 0, totalWords |-> totalWords]

\* MatchingGame.finishGame: words.map(w => ({ wordId: w.id, ... }))
MatchingQuestionLog(w) ==
    [wordId |-> w.id, options |-> <<>>, correctId |-> w.id, selectedId |-> w.id,
     isCorrect |-> TRUE, timeTaken |-> 0]

\* MatchingGame.finishGame: the record handed to HistoryManager.saveSession.
MatchingFinishLog(log, words, actualScore, incorrect, totalWords) ==
    [log EXCEPT !.questions = MapSeq(words, MatchingQuestionLog),
                !.score = actualScore,
                !.mistakes = incorrect,
                !.totalWords = IF totalWords # 0 THEN totalWords ELSE Len(words)]

\* ChoiceGame.finishGame: the record handed to HistoryManager.saveSession.
ChoiceFinishLog(log, sc, mist) ==
    [log EXCEPT !.score = sc, !.mistakes = mist, !.questions = <<>>]

\* ChoiceGame.handleManualExit: the record handed to HistoryManager.saveSession.
ChoiceExitLog(log, words, sc, mist) ==
    [log EXCEPT !.score = sc, !.mistakes = mist, !.totalWords = Len(words)]

(***************************************************************************)
(* App.handleReplay                                                        *)
(***************************************************************************)
\* { id: q.wordId, val: ['?', 'Error: Word Removed'] }
PlaceholderWord(wordId) == [id |-> wordId, val |-> << <<"?">>, <<"Error: Word Removed">> >>]

\* allThemeWords.find(w => w.id === q.wordId) || placeholder
RECURSIVE FindWordOr(_, _)
FindWordOr(pool, wordId) ==
    IF pool = <<>> THEN PlaceholderWord(wordId)
    ELSE IF Head(pool).id = wordId THEN Head(pool)
    ELSE FindWordOr(Tail(pool), wordId)

\* A reconstruction that skips the questions whose word is gone.
ReplaySequenceDropMissing(session, pool) ==
    LET found == { i \in 1..Len(session.questions) :
                     \E w \in Range(pool) : w.id = session.questions[i].wordId }
        RECURSIVE Build(_)
        Build(i) == IF i > Len(session.questions) THEN <<>>
                    ELSE (IF i \in found
                          THEN <<FindWordOr(pool, session.questions[i].wordId)>>
                          ELSE <<>>) \o Build(i + 1)
    IN  Build(1)

ReplaySequence(session, pool) ==
    [i \in 1..Len(session.questions) |-> FindWordOr(pool, session.questions[i].wordId)]

HandleReplay(session) ==
    /\ view = "history"
    /\ IF Len(session.questions) = 0
       THEN /\ alertShown' = "oldFormat"
            /\ UNCHANGED <<themeData, storageFull, view, activeConfig, activeWords, dictionary,
                           totalThemeWords, allThemeWords, subset, history,
                           playedWords, themeEdited>>
       ELSE \E loaded \in BOOLEAN :
            IF ~loaded
            THEN /\ alertShown' = "replayError"
                 /\ UNCHANGED <<themeData, storageFull, view, activeConfig, activeWords, dictionary,
                                totalThemeWords, allThemeWords, subset, history,
                                playedWords, themeEdited>>
            ELSE /\ activeWords' = ReplaySequence(session, themeData)
                 /\ totalThemeWords' = Len(themeData)
                 /\ dictionary' = themeData
                 /\ activeConfig' = [session.config EXCEPT !.isReplay = TRUE,
                                                            !.replaySessionId = session.id]
                 /\ view' = "game"
                 /\ alertShown' = "none"
                 /\ UNCHANGED <<themeData, storageFull, allThemeWords, subset, history,
                                playedWords, themeEdited>>

(***************************************************************************)
(* DatabaseEditor.handleDeleteWord, as far as replay sees it: a word of    *)
(* the session's themes is gone.                                           *)
(***************************************************************************)
RemoveWordId(pool, wordId) ==
    FilterSeq(pool, { w \in Range(pool) : w.id # wordId })

HandleDeleteWord(wordId) ==
    /\ view = "editor"
    /\ \E w \in Range(themeData) : w.id = wordId
    /\ themeData' = RemoveWordId(themeData, wordId)
    /\ themeEdited' = TRUE
    /\ UNCHANGED <<storageFull, view, activeConfig, activeWords, dictionary, totalThemeWords,
                   alertShown, allThemeWords, subset, history, playedWords>>

(***************************************************************************)
(* App navigation: Dashboard.onNavigate, the onBack of history and editor. *)
(***************************************************************************)
Navigate(target) ==
    /\ \/ view = "dashboard" /\ target \in {"history", "editor"}
       \/ view \in {"history", "editor"} /\ target = "dashboard"
    /\ view' = target
    /\ UNCHANGED <<themeData, storageFull, activeConfig, activeWords, dictionary, totalThemeWords,
                   alertShown, allThemeWords, subset, history, playedWords, themeEdited>>

(***************************************************************************)
(* useTimer.  Times are integers: one second is TicksPerSecond interval    *)
(* ticks of 0.1 s, and every time of a game of n words is further scaled   *)
(* by Scale = n - 1 when the acceleration step (start - end) / (n - 1) is  *)
(* in use, so that the step is computed exactly.                           *)
(***************************************************************************)
TicksPerSecond == 10

Null == <<>>

NoTimeout == [pending |-> FALSE, round |-> 0, score |-> 0, incorrect |-> 0]

\* config.timerMode === 'acceleration' && accelerationStart && accelerationEnd
IsAccelerationMode(config) ==
    /\ config.timerMode = "acceleration"
    /\ config.accelerationStart # 0
    /\ config.accelerationEnd # 0

\* MatchingGame: totalSteps = words.length - 1, the divisor of the step.
Scale(config, words) ==
    IF config.mode = "matching" /\ IsAccelerationMode(config) /\ Len(words) - 1 > 0
    THEN Len(words) - 1
    ELSE 1

\* MatchingGame: initialTime, step and minTime handed to useTimer.
MatchingTimerParams(config, words) ==
    LET scale == Scale(config, words) IN
    IF IsAccelerationMode(config)
    THEN [mode        |-> config.timerMode,
          initialTime |-> config.accelerationStart * scale,
          step        |-> IF Len(words) - 1 > 0
                          THEN config.accelerationStart - config.accelerationEnd
                          ELSE 0,
          minTime     |-> config.accelerationEnd * scale,
          tick        |-> scale]
    ELSE [mode        |-> config.timerMode,
          initialTime |-> config.timeLimit * scale,
          step        |-> 0,
          minTime     |-> TicksPerSecond * scale,
          tick        |-> scale]

\* ChoiceGame: useTimer({ timeLimit, accelerationStep: 0.5, minTime: 2.0 })
ChoiceAccelerationStep == 5

ChoiceMinTime == 20

ChoiceTimerParams(config) ==
    [mode        |-> config.timerMode,
     initialTime |-> config.timeLimit,
     step        |-> ChoiceAccelerationStep,
     minTime     |-> ChoiceMinTime,
     tick        |-> 1]

TimerParams(config, words) ==
    IF config.mode = "matching" THEN MatchingTimerParams(config, words)
    ELSE ChoiceTimerParams(config)

\* A limit that never shrinks.
AccelerateNever(limit, params) == limit

\* useTimer.accelerate: setCurrentLimit(prev => Math.max(prev - step, minTime))
Accelerate(limit, params) ==
    IF params.mode = "acceleration"
    THEN Max(limit - params.step, params.minTime)
    ELSE limit

\* The interval callback: prev <= 0.1 ends the countdown.
TimerExpires(params) == timeLeft <= params.tick

\* An interval that exists in every mode.
TimerTicksInEveryMode(params) == isRunning

\* The interval exists while isRunning && mode !== 'none'.
TimerTicks(params) == isRunning /\ params.mode # "none"

(***************************************************************************)
(* MatchingGame                                                            *)
(***************************************************************************)
\* Math.max(1, config.batchSize || 1)
BatchSize(config) == Max(1, IF config.batchSize = 0 THEN 1 ELSE config.batchSize)

\* batches.length
BatchCount(words, config) == (Len(words) + BatchSize(config) - 1) \div BatchSize(config)

\* batches[r], or the empty sequence where the code reads undefined
BatchAt(words, config, r) ==
    IF r < 0 \/ r >= BatchCount(words, config) THEN <<>>
    ELSE SubSeq(words, r * BatchSize(config) + 1,
                Min((r + 1) * BatchSize(config), Len(words)))

\* `${w.val[0]}|||${w.val[1]}`
MatchKey(w) == w.val[1] \o KeySeparator \o w.val[2]

\* id: `L_${w.id}_${i}_${roundIndex}` and `R_${w.id}_${i}_${roundIndex}`
ItemId(prefix, w, i, r) == <<prefix, w.id, i, r>>

LeftItems(batch, r) ==
    [i \in 1..Len(batch) |->
        [id |-> ItemId("L", batch[i], i - 1, r), text |-> batch[i].val[1],
         side |-> "left", state |-> "default", matchKey |-> MatchKey(batch[i])]]

RightItems(source, r) ==
    [i \in 1..Len(source) |->
        [id |-> ItemId("R", source[i], i - 1, r), text |-> source[i].val[2],
         side |-> "right", state |-> "default", matchKey |-> MatchKey(source[i])]]

\* Math.max(batch.length, config.optionsCount || batch.length)
TargetRightCount(batch, config) ==
    Max(Len(batch), IF config.optionsCount = 0 THEN Len(batch) ELSE config.optionsCount)

\* dictionary.filter(w => !batchIds.has(w.id))
DistractorPool(batch, dict) ==
    FilterSeq(dict, { w \in Range(dict) : \A b \in Range(batch) : b.id # w.id })

\* pool.sort(() => Math.random() - 0.5).slice(0, needed)
DistractorChoices(batch, dict, config) ==
    LET pool   == DistractorPool(batch, dict)
        needed == TargetRightCount(batch, config) - Len(batch)
    IN  IF needed > 0 /\ pool # <<>>
        THEN { Take(p, needed) : p \in Shuffles(pool) }
        ELSE { <<>> }

\* The items a round can start with: both sides shuffled, left side first.
RoundLayouts(batch, dict, config, r) ==
    UNION { { left \o right : left \in Shuffles(LeftItems(batch, r)),
                              right \in Shuffles(RightItems(batch \o d, r)) } :
            d \in DistractorChoices(batch, dict, config) }

\* s.find(pred)?.id
FirstIdWhere(s, pred) ==
    IF \E i \in 1..Len(s) : s[i] \in pred
    THEN s[CHOOSE i \in 1..Len(s) : s[i] \in pred /\ \A j \in 1..(i - 1) : s[j] \notin pred].id
    ELSE Null

\* items.find(i => i.side === 'left')
FirstLeft(its) == FirstIdWhere(its, { it \in Range(its) : it.side = "left" })

\* items.some(i => i.state === 'error' || i.state === 'success-hint')
FeedbackActive(its) == \E it \in Range(its) : it.state \in {"error", "success-hint"}

\* items.some(i => i.state === 'error')
HasErrors(its) == \E it \in Range(its) : it.state = "error"

\* An enforcer that leaves the selection as it finds it.
EnforcedLeftIdle(its, selLeft, matches, finished, batch) == selLeft

\* The selection enforcer: while the round is open and nothing shows an error,
\* an empty left selection moves to the first unmatched left item.
EnforcedLeft(its, selLeft, matches, finished, batch) ==
    IF finished \/ Len(matches) = Len(batch) THEN selLeft
    ELSE IF selLeft = Null /\ ~HasErrors(its) /\ its # <<>>
    THEN LET first == FirstIdWhere(its, { it \in Range(its) :
                                          it.side = "left" /\ it.state # "matched" })
         IN  IF first # Null THEN first ELSE selLeft
    ELSE selLeft

\* Every matched id would count as belonging to the round on screen.
IsStaleMatchesNever(matches, r) == FALSE

\* sampleId && !sampleId.endsWith(`_${roundIndex}`)
IsStaleMatches(matches, r) == matches # <<>> /\ matches[1][4] # r

\* The completion watcher arms its 300 ms timeout.
WatcherArms(matches, batch, finished, r, transitioning) ==
    /\ batch # <<>>
    /\ ~finished
    /\ Len(matches) = Len(batch)
    /\ ~IsStaleMatches(matches, r)
    /\ ~transitioning

\* new Set(prev).add(id)
AddToSet(s, id) == IF id \in Range(s) THEN s ELSE Append(s, id)

CurrentBatch == BatchAt(activeWords, activeConfig, roundIndex)

MatchingMounted == view = "game" /\ activeConfig.mode = "matching" /\ ~appCrashed

\* The state a handler of MatchingGame leaves once React has re-rendered and
\* the enforcer and the completion watcher have run on the new values.
MatchCommit(newItems, selLeft, selRight, matches, newScore, incorrect) ==
    LET arms == WatcherArms(matches, CurrentBatch, isFinished, roundIndex, isTransitioning)
    IN  /\ items' = newItems
        /\ selectedLeft' = EnforcedLeft(newItems, selLeft, matches, isFinished, CurrentBatch)
        /\ selectedRight' = selRight
        /\ matchesInRound' = matches
        /\ score' = newScore
        /\ incorrectCount' = incorrect
        /\ isTransitioning' = (isTransitioning \/ arms)
        /\ advancePending' = IF arms
                             THEN [pending |-> TRUE, round |-> roundIndex,
                                   score |-> newScore, incorrect |-> incorrect]
                             ELSE advancePending

\* A marking that forgets the right item of the pair.
MarkMatchedLeftOnly(its, leftId, rightId) ==
    [i \in 1..Len(its) |->
        IF its[i].id = leftId THEN [its[i] EXCEPT !.state = "matched"] ELSE its[i]]

\* checkMatch, the isMatch branch: items.map(...)
MarkMatched(its, leftId, rightId) ==
    [i \in 1..Len(its) |->
        IF its[i].id = leftId \/ its[i].id = rightId
        THEN [its[i] EXCEPT !.state = "matched"] ELSE its[i]]

\* A marking that shows the wrong pair and no hint.
MarkMismatchNoHint(its, leftId, rightId) ==
    [i \in 1..Len(its) |->
        IF its[i].id = leftId \/ its[i].id = rightId
        THEN [its[i] EXCEPT !.state = "error"] ELSE its[i]]

\* checkMatch, the mismatch branch: the clicked pair red, the right answer green
MarkMismatch(its, leftId, rightId) ==
    LET leftKey == (CHOOSE it \in Range(its) : it.id = leftId).matchKey
        correctRight == FirstIdWhere(its, { it \in Range(its) :
                                            it.side = "right" /\ it.matchKey = leftKey })
    IN  [i \in 1..Len(its) |->
            IF (its[i].side = "left" /\ its[i].id = leftId)
               \/ (its[i].side = "right" /\ its[i].id = rightId)
            THEN [its[i] EXCEPT !.state = "error"]
            ELSE IF correctRight # Null /\ its[i].id = correctRight
            THEN [its[i] EXCEPT !.state = "success-hint"]
            ELSE its[i]]

\* checkMatch(leftId, rightId), after handleItemClick has set the selection
\* to (selLeft, selRight).
CheckMatch(leftId, rightId, selLeft, selRight) ==
    LET params == TimerParams(activeConfig, activeWords)
        found(id) == \E it \in Range(items) : it.id = id
        keyOf(id) == (CHOOSE it \in Range(items) : it.id = id).matchKey
    IN  IF isTransitioning \/ ~found(leftId) \/ ~found(rightId)
        THEN /\ MatchCommit(items, selLeft, selRight, matchesInRound, score, incorrectCount)
             /\ UNCHANGED <<timerVars, correctAnswers>>
        ELSE IF keyOf(leftId) = keyOf(rightId)
        THEN /\ MatchCommit(MarkMatched(items, leftId, rightId), Null, Null,
                            AddToSet(matchesInRound, leftId), score + 1, incorrectCount)
             /\ correctAnswers' = correctAnswers + 1
             /\ IF activeConfig.timerMode = "acceleration"
                THEN /\ currentLimit' = Accelerate(currentLimit, params)
                     /\ timeLeft' = currentLimit   \* reset() reads the limit of this render
                     /\ isRunning' = TRUE
                     /\ UNCHANGED timeUpCalls
                ELSE IF activeConfig.timerMode = "per-question"
                THEN /\ timeLeft' = currentLimit
                     /\ isRunning' = TRUE
                     /\ UNCHANGED <<currentLimit, timeUpCalls>>
                ELSE UNCHANGED timerVars
        ELSE /\ incorrectCount < MaxMistakes
             /\ MatchCommit(MarkMismatch(items, leftId, rightId), Null, Null,
                            matchesInRound, score, incorrectCount + 1)
             /\ UNCHANGED <<timerVars, correctAnswers>>

\* A click handler that only looks at the end of the game.
ClickIgnoredWhenFinished(item) == isFinished

\* handleItemClick, the early returns: finished, a matched item, feedback shown
ClickIgnored(item) ==
    isFinished \/ item.state = "matched" \/ FeedbackActive(items)

\* handleItemClick(items[k])
HandleItemClick(k) ==
    /\ MatchingMounted
    /\ k \in 1..Len(items)
    /\ LET item == items[k] IN
       IF ClickIgnored(item)
       THEN UNCHANGED vars
       ELSE IF item.side = "left"
       THEN IF selectedLeft = item.id
            THEN UNCHANGED vars
            ELSE /\ IF selectedRight # Null
                    THEN CheckMatch(item.id, selectedRight, item.id, selectedRight)
                    ELSE /\ MatchCommit(items, item.id, selectedRight, matchesInRound,
                                        score, incorrectCount)
                         /\ UNCHANGED <<timerVars, correctAnswers>>
                 /\ UNCHANGED <<appVars, choiceVars, history, isFinished, appCrashed, sessionLog, roundIndex,
                                hasSaved, firedRounds>>
       ELSE /\ IF selectedRight = item.id
               THEN /\ MatchCommit(items, selectedLeft, Null, matchesInRound,
                                   score, incorrectCount)
                    /\ UNCHANGED <<timerVars, correctAnswers>>
               ELSE IF selectedLeft # Null
               THEN CheckMatch(selectedLeft, item.id, selectedLeft, item.id)
               ELSE /\ MatchCommit(items, selectedLeft, item.id, matchesInRound,
                                   score, incorrectCount)
                    /\ UNCHANGED <<timerVars, correctAnswers>>
            /\ UNCHANGED <<appVars, choiceVars, history, isFinished, appCrashed, sessionLog, roundIndex,
                           hasSaved, firedRounds>>

\* A timeout that leaves the items as they are.
ResetFeedbackKeep(its) == its

\* The 400 ms timeout of the feedback effect: red and green go back to default.
ResetFeedback(its) ==
    [i \in 1..Len(its) |->
        IF its[i].state \in {"error", "success-hint"}
        THEN [its[i] EXCEPT !.state = "default"] ELSE its[i]]

FeedbackTimeout ==
    /\ MatchingMounted
    /\ FeedbackActive(items)
    /\ MatchCommit(ResetFeedback(items), selectedLeft, selectedRight, matchesInRound,
                   score, incorrectCount)
    /\ UNCHANGED <<appVars, choiceVars, history, timerVars, isFinished, appCrashed, sessionLog, correctAnswers,
                   roundIndex, hasSaved, firedRounds>>

\* The game end effect: !currentBatch && !isFinished && roundIndex >= batches.length
EndOfSequence(batch, finished, r, words, config) ==
    batch = <<>> /\ ~finished /\ r >= BatchCount(words, config)

\* HistoryManager.saveSession(session) as its callers see it: when
\* localStorage.setItem throws, nothing is written and the error propagates,
\* because neither saveSession nor any caller has a try/catch.
Persist(store, session) ==
    IF storageFull THEN store ELSE SaveSession(store, session)

\* Where an uncaught error ends, by the place it is thrown from: a timeout
\* callback or a click handler loses only the rest of the callback; an effect
\* or a render unmounts the tree (there is no error boundary); a state updater
\* is run eagerly (the error is swallowed and the updater runs again while
\* rendering) or only while rendering, depending on what React has queued.
InCallback == {FALSE}

InEffect == {TRUE}

InUpdater == {FALSE, TRUE}

\* stopTimer(): setIsRunning(false)
StopTimerIgnored(running) == running

StopTimer(running) == FALSE

\* A guard that lets every call of finishGame through.
AlreadyFinishedNever(finished, saved) == FALSE

\* if (isFinished || hasSaved.current) return;
AlreadyFinished(finished, saved) == finished \/ saved

\* finishGame(finalScore) as called from a closure in which isFinished is
\* `finished`: guard, setIsFinished, timer.stop, hasSaved, saveSession.
\* `crashes` are the outcomes of an error thrown by saveSession.
FinishGame(finished, actualScore, incorrect, crashes) ==
    IF AlreadyFinished(finished, hasSaved)
    THEN UNCHANGED <<isFinished, isRunning, hasSaved, sessionLog, history, appCrashed>>
    ELSE /\ isFinished' = (IF MatchingMounted THEN TRUE ELSE isFinished)
         /\ isRunning' = StopTimer(isRunning)
         /\ hasSaved' = TRUE
         /\ sessionLog' = MatchingFinishLog(sessionLog, playedWords, actualScore,
                                            incorrect, sessionLog.totalWords)
         /\ history' = Persist(history, sessionLog')
         /\ \E c \in crashes : appCrashed' = (appCrashed \/ (storageFull /\ c))

\* The 300 ms timeout armed by the completion watcher.  It is never cleared,
\* so it also runs after the component has been unmounted.
AdvanceTimeout ==
    /\ advancePending.pending
    /\ firedRounds' = Append(firedRounds, advancePending.round)
    /\ IF advancePending.round < BatchCount(playedWords, sessionLog.config) - 1
       THEN IF MatchingMounted
            THEN \* setRoundIndex(r => r + 1); the round init effect and, in the same
                 \* pass, the watcher, which still sees the matches of the old round
                 LET next  == roundIndex + 1
                     batch == BatchAt(activeWords, activeConfig, next)
                     arms  == WatcherArms(matchesInRound, batch, isFinished, next, FALSE)
                 IN  IF EndOfSequence(batch, isFinished, next, activeWords, activeConfig)
                     THEN \* no batch is left: the game end effect calls finishGame(score)
                          /\ roundIndex' = next
                          /\ FinishGame(isFinished, score, incorrectCount, InEffect)
                          /\ advancePending' = NoTimeout
                          /\ UNCHANGED <<appVars, choiceVars, timeLeft, currentLimit, timeUpCalls, score,
                                         correctAnswers, items, selectedLeft, selectedRight,
                                         matchesInRound, incorrectCount, isTransitioning>>
                     ELSE /\ roundIndex' = next
                          /\ \E layout \in RoundLayouts(batch, dictionary, activeConfig, next) :
                                 /\ items' = layout
                                 /\ selectedLeft' = FirstLeft(layout)
                          /\ selectedRight' = Null
                          /\ matchesInRound' = <<>>
                          /\ isTransitioning' = arms
                          /\ advancePending' = IF arms
                                               THEN [pending |-> TRUE, round |-> next,
                                                     score |-> score,
                                                     incorrect |-> incorrectCount]
                                               ELSE NoTimeout
                          /\ UNCHANGED <<appVars, choiceVars, history, timerVars, engineVars,
                                         incorrectCount, hasSaved>>
            ELSE /\ advancePending' = NoTimeout
                 /\ UNCHANGED <<appVars, choiceVars, history, timerVars, engineVars, roundIndex, items,
                                selectedLeft, selectedRight, matchesInRound,
                                incorrectCount, hasSaved, isTransitioning>>
       ELSE /\ FinishGame(FALSE, advancePending.score, advancePending.incorrect, InCallback)
            /\ advancePending' = NoTimeout
            /\ UNCHANGED <<appVars, choiceVars, timeLeft, currentLimit, timeUpCalls, score, correctAnswers,
                           roundIndex, items, selectedLeft, selectedRight, matchesInRound,
                           incorrectCount, isTransitioning>>

\* handleTimeUp: if (!isFinished) finishGame()
TimeUpGuardOpen(finished) == TRUE

TimeUpGuard(finished) == ~finished

\* One interval tick of useTimer in MatchingGame; at zero, handleTimeUp.
MatchingTick ==
    LET params == TimerParams(activeConfig, activeWords) IN
    /\ MatchingMounted
    /\ TimerTicks(params)
    /\ IF TimerExpires(params)
       THEN /\ timeLeft' = 0
            /\ timeUpCalls' = timeUpCalls + 1
            /\ IF TimeUpGuard(isFinished) /\ ~hasSaved
               THEN FinishGame(FALSE, score, incorrectCount, InUpdater)
               ELSE /\ isRunning' = StopTimer(isRunning)
                    /\ UNCHANGED <<isFinished, hasSaved, sessionLog, history, appCrashed>>
            /\ UNCHANGED <<appVars, choiceVars, currentLimit, score, correctAnswers, roundIndex, items,
                           selectedLeft, selectedRight, matchesInRound, incorrectCount,
                           isTransitioning, advancePending, firedRounds>>
       ELSE /\ timeLeft' = timeLeft - params.tick
            /\ UNCHANGED <<appVars, choiceVars, history, currentLimit, isRunning, timeUpCalls, engineVars, matchVars>>

\* The exit button during play and the button of the result screen: onExit()
\* and nothing else; unmounting stops the timer.
MatchingExit ==
    /\ MatchingMounted
    /\ HandleExitGame
    /\ isRunning' = FALSE
    /\ UNCHANGED <<history, timeLeft, currentLimit, timeUpCalls, engineVars, matchVars, choiceVars>>

(***************************************************************************)
(* ChoiceGame                                                              *)
(***************************************************************************)
ChoiceMounted == view = "game" /\ activeConfig.mode = "one-of-n" /\ ~appCrashed

\* words.slice(start, end) with batchSize = config.batchSize || 1
ChoiceBatchAt(words, config, b) ==
    LET size  == IF config.batchSize = 0 THEN 1 ELSE config.batchSize
        start == b * size
    IN  IF start >= Len(words) THEN <<>>
        ELSE SubSeq(words, start + 1, Min(start + size, Len(words)))

IdsOf(s) == { w.id : w \in Range(s) }

DefaultOptionsCount == 5

\* [...correctOptions, ...distractors].sort(() => Math.random() - 0.5)
OptionLayouts(batch, dict, config) ==
    LET needed == (IF config.optionsCount = 0 THEN DefaultOptionsCount
                   ELSE config.optionsCount) - Len(batch)
        pool   == FilterSeq(dict, { w \in Range(dict) : w.id \notin IdsOf(batch) })
    IN  UNION { Shuffles(batch \o Take(p, Max(0, needed))) : p \in Shuffles(pool) }

\* ChoiceGame.finishGame() of a render in which score and mistakes are sc and mist
\* (no guard, no timer.stop); `crashes` are the outcomes of an error thrown by
\* saveSession.
ChoiceFinishGame(sc, mist, crashes) ==
    /\ isFinished' = TRUE
    /\ sessionLog' = ChoiceFinishLog(sessionLog, sc, mist)
    /\ history' = Persist(history, sessionLog')
    /\ \E c \in crashes : appCrashed' = (appCrashed \/ (storageFull /\ c))

\* The batch initialisation effect for batch index b.
BatchInit(b) ==
    IF isFinished
    THEN UNCHANGED <<isFinished, sessionLog, history, appCrashed, timerVars, currentBatch,
                     options, selectedQuestionId, resolvedIds, wrongIds, correctMatchIds,
                     taintedQuestionIds, wrongGuessed, ignoredOption>>
    ELSE IF ChoiceBatchAt(activeWords, activeConfig, b) = <<>>
    THEN /\ ChoiceFinishGame(score, mistakes, InEffect)
         /\ UNCHANGED <<timerVars, currentBatch, options, selectedQuestionId, resolvedIds,
                        wrongIds, correctMatchIds, taintedQuestionIds, wrongGuessed,
                        ignoredOption>>
    ELSE LET batch == ChoiceBatchAt(activeWords, activeConfig, b) IN
         /\ currentBatch' = batch
         /\ options' \in OptionLayouts(batch, dictionary, activeConfig)
         /\ resolvedIds' = {}
         /\ correctMatchIds' = {}
         /\ wrongIds' = {}
         /\ taintedQuestionIds' = {}
         /\ wrongGuessed' = {}
         /\ ignoredOption' = Null
         /\ selectedQuestionId' = IF Len(batch) = 1 THEN batch[1].id ELSE Null
         /\ timeLeft' = currentLimit      \* timer.reset()
         /\ isRunning' = TRUE
         /\ UNCHANGED <<currentLimit, timeUpCalls, isFinished, sessionLog, history,
                        appCrashed>>

\* handleQuestionClick(id)
HandleQuestionClick(id) ==
    /\ ChoiceMounted
    /\ ~isFinished
    /\ id \in IdsOf(currentBatch)
    /\ IF id \in resolvedIds
       THEN UNCHANGED vars
       ELSE /\ selectedQuestionId' = id
            /\ wrongIds' = {}
            /\ ignoredOption' = Null
            /\ UNCHANGED <<appVars, history, timerVars, engineVars, matchVars, batchIndex,
                           mistakes, currentBatch, options, resolvedIds, correctMatchIds,
                           taintedQuestionIds, advanceTimer, wrongGuessed>>

\* A scoring rule that pays every resolved question.
ScoreAfterCorrectUntainted(sc, tainted, questionId) == sc + 1

\* if (!taintedQuestionIds.has(selectedQuestionId)) setScore(s => s + 1)
ScoreAfterCorrect(sc, tainted, questionId) ==
    IF questionId \notin tainted THEN sc + 1 ELSE sc

\* A rule that leaves no question selected after a correct answer.
SelectionAfterCorrectCleared(batch, newResolved) == Null

\* The selection after a correct answer: none when the batch is resolved,
\* else the last open question when exactly one is left, else none.
SelectionAfterCorrect(batch, newResolved) ==
    LET remaining == FilterSeq(batch, { q \in Range(batch) : q.id \notin newResolved })
    IN  IF Cardinality(newResolved) = Len(batch) THEN Null
        ELSE IF Len(remaining) = 1 THEN remaining[1].id
        ELSE Null

\* handleOptionClick(optionId)
HandleOptionClick(optionId) ==
    /\ ChoiceMounted
    /\ ~isFinished
    /\ optionId \in IdsOf(options)
    /\ IF selectedQuestionId = Null /\ optionId \notin correctMatchIds
       THEN /\ ignoredOption' = optionId
            /\ UNCHANGED <<appVars, history, timerVars, engineVars, matchVars, batchIndex,
                           mistakes, currentBatch, options, selectedQuestionId, resolvedIds,
                           wrongIds, correctMatchIds, taintedQuestionIds, advanceTimer,
                           wrongGuessed>>
       ELSE IF selectedQuestionId = Null
               \/ optionId \in correctMatchIds
               \/ selectedQuestionId \notin IdsOf(currentBatch)
       THEN UNCHANGED vars
       ELSE IF selectedQuestionId = optionId
       THEN LET newResolved == resolvedIds \cup {selectedQuestionId}
            IN  /\ resolvedIds' = newResolved
                /\ correctMatchIds' = correctMatchIds \cup {optionId}
                /\ score' = ScoreAfterCorrect(score, taintedQuestionIds, selectedQuestionId)
                /\ correctAnswers' = correctAnswers + 1
                /\ ignoredOption' = Null
                /\ selectedQuestionId' = SelectionAfterCorrect(currentBatch, newResolved)
                /\ advanceTimer' = (advanceTimer \/ Cardinality(newResolved) = Len(currentBatch))
                /\ UNCHANGED <<appVars, history, timerVars, isFinished, appCrashed, sessionLog,
                               matchVars, batchIndex, mistakes, currentBatch, options,
                               wrongIds, taintedQuestionIds, wrongGuessed>>
       ELSE /\ mistakes < MaxMistakes
            /\ wrongIds' = wrongIds \cup {optionId}
            /\ mistakes' = mistakes + 1
            /\ taintedQuestionIds' = taintedQuestionIds \cup {selectedQuestionId}
            /\ wrongGuessed' = wrongGuessed \cup {selectedQuestionId}
            /\ ignoredOption' = Null
            /\ UNCHANGED <<appVars, history, timerVars, engineVars, matchVars, batchIndex,
                           currentBatch, options, selectedQuestionId, resolvedIds,
                           correctMatchIds, advanceTimer>>

\* The 400 ms timeout of a resolved batch: setBatchIndex(prev => prev + 1),
\* then the batch initialisation effect.
ChoiceAdvanceTimeout ==
    /\ ChoiceMounted
    /\ advanceTimer
    /\ advanceTimer' = FALSE
    /\ batchIndex' = batchIndex + 1
    /\ BatchInit(batchIndex + 1)
    /\ UNCHANGED <<appVars, score, correctAnswers, matchVars, mistakes>>

\* One interval tick of useTimer in ChoiceGame.  At zero the interval calls the
\* handleTimeUp it was created with: the one of the mount render while the game
\* is not finished, whose finishGame sees score 0 and mistakes 0.
ChoiceTick ==
    LET params == TimerParams(activeConfig, activeWords) IN
    /\ ChoiceMounted
    /\ TimerTicks(params)
    /\ IF TimerExpires(params)
       THEN /\ timeLeft' = 0
            /\ isRunning' = StopTimer(isRunning)
            /\ timeUpCalls' = timeUpCalls + 1
            /\ IF TimeUpGuard(isFinished)
               THEN ChoiceFinishGame(0, 0, InEffect)
               ELSE UNCHANGED <<isFinished, sessionLog, history, appCrashed>>
            /\ UNCHANGED <<appVars, currentLimit, score, correctAnswers, matchVars,
                           choiceVars>>
       ELSE /\ timeLeft' = timeLeft - params.tick
            /\ UNCHANGED <<appVars, history, currentLimit, isRunning, timeUpCalls, engineVars,
                           matchVars, choiceVars>>

\* handleManualExit: the X of the play screen saves the progress and leaves.
\* When saveSession throws, onExit() is not reached: setIsFinished(true) has
\* been queued, so the result screen appears and the timer keeps running.
HandleManualExit ==
    /\ ChoiceMounted
    /\ ~isFinished
    /\ sessionLog' = ChoiceExitLog(sessionLog, activeWords, score, mistakes)
    /\ history' = Persist(history, sessionLog')
    /\ \E c \in InCallback : appCrashed' = (appCrashed \/ (storageFull /\ c))
    /\ IF storageFull
       THEN /\ isFinished' = TRUE
            /\ UNCHANGED <<appVars, isRunning, advanceTimer>>
       ELSE /\ HandleExitGame
            /\ isRunning' = FALSE
            /\ advanceTimer' = FALSE
            /\ UNCHANGED isFinished
    /\ ignoredOption' = Null
    /\ UNCHANGED <<timeLeft, currentLimit, timeUpCalls, score, correctAnswers,
                   matchVars, batchIndex, mistakes, currentBatch, options,
                   selectedQuestionId, resolvedIds, wrongIds, correctMatchIds,
                   taintedQuestionIds, wrongGuessed>>

\* The button of the result screen: onExit().
ChoiceExit ==
    /\ ChoiceMounted
    /\ isFinished
    /\ HandleExitGame
    /\ isRunning' = FALSE
    /\ advanceTimer' = FALSE
    /\ ignoredOption' = Null
    /\ UNCHANGED <<history, timeLeft, currentLimit, timeUpCalls, engineVars, matchVars, batchIndex, mistakes,
                   currentBatch, options, selectedQuestionId, resolvedIds, wrongIds,
                   correctMatchIds, taintedQuestionIds, wrongGuessed>>

(***************************************************************************)
(* No round engine is mounted.                                             *)
(***************************************************************************)
MatchingIdle ==
    /\ roundIndex = 0
    /\ items = <<>>
    /\ selectedLeft = Null
    /\ selectedRight = Null
    /\ matchesInRound = <<>>
    /\ incorrectCount = 0
    /\ hasSaved = FALSE
    /\ isTransitioning = FALSE
    /\ advancePending = NoTimeout
    /\ firedRounds = <<>>

ChoiceIdle ==
    /\ batchIndex = 0
    /\ mistakes = 0
    /\ currentBatch = <<>>
    /\ options = <<>>
    /\ selectedQuestionId = Null
    /\ resolvedIds = {}
    /\ wrongIds = {}
    /\ correctMatchIds = {}
    /\ taintedQuestionIds = {}
    /\ advanceTimer = FALSE
    /\ wrongGuessed = {}
    /\ ignoredOption = Null

GameIdle ==
    /\ timeLeft = 0
    /\ currentLimit = 0
    /\ isRunning = FALSE
    /\ timeUpCalls = 0
    /\ isFinished = FALSE
    /\ appCrashed = FALSE
    /\ score = 0
    /\ sessionLog = NewSessionLog(0, NoConfig, 0)
    /\ correctAnswers = 0
    /\ MatchingIdle
    /\ ChoiceIdle

(***************************************************************************)
(* Specification of the word pool resolver: the dashboard starts games     *)
(* over every pool and every (wordCount, totalQuestions, direction).       *)
(***************************************************************************)
StartConfigs ==
    { GameConfig(wc, tq, dir, "matching", "none", 0, 1, 4, 0, 0) :
        wc \in 0..MaxWordCount, tq \in 0..MaxQuestions, dir \in Directions }

AppInit ==
    /\ themeData \in RawPools
    /\ view = "dashboard"
    /\ activeConfig = NoConfig
    /\ activeWords = <<>>
    /\ dictionary = <<>>
    /\ totalThemeWords = 0
    /\ alertShown = "none"
    /\ allThemeWords = <<>>
    /\ subset = <<>>
    /\ playedWords = <<>>
    /\ themeEdited = FALSE
    /\ history = <<>>
    /\ storageFull = FALSE
    /\ GameIdle

Init == AppInit

Next == StartGame(StartConfigs)

Spec == Init /\ [][Next]_vars

(***************************************************************************)
(* Specification of replay: one game has been played to its end over the   *)
(* theme data and its session is in the history; the user browses the      *)
(* history, edits the themes and replays the session.                      *)
(***************************************************************************)
PlayConfigs ==
    { GameConfig(wc, tq, dir, mode, "none", 0, 1, 4, 0, 0) :
        wc \in 0..MaxWordCount, tq \in 1..MaxQuestions, dir \in Directions, mode \in Modes }

\* The records a finished game of `config` over `words` can leave in the history.
FinishedSessions(config, words, total) ==
    IF config.mode = "matching"
    THEN { MatchingFinishLog(NewSessionLog(FirstSessionId, config, total), words, sc, 0, total) :
             sc \in {0, Len(words)} }
    ELSE { ChoiceFinishLog(NewSessionLog(FirstSessionId, config, Len(words)), sc, 0) :
             sc \in {0, Len(words)} }

ReplayInit ==
    \E raw \in RawPools \ {<<>>}, config \in PlayConfigs :
    \E shuffled \in Shuffles(Deduplicate(raw)) :
    \E sequence \in FillSequences(SubsetOf(shuffled, config), QuestionCount(config)) :
    \E session \in FinishedSessions(config, ApplyDirection(sequence, config), Len(raw)) :
        /\ themeData = raw
        /\ view = "dashboard"
        /\ activeConfig = NoConfig
        /\ activeWords = <<>>
        /\ dictionary = DictionaryFor(Deduplicate(raw), config)
        /\ totalThemeWords = Len(raw)
        /\ alertShown = "none"
        /\ allThemeWords = <<>>
        /\ subset = <<>>
        /\ playedWords = ApplyDirection(sequence, config)
        /\ themeEdited = FALSE
        /\ history = <<session>>
        /\ storageFull = FALSE
        /\ GameIdle

Browse ==
    /\ \E target \in {"dashboard", "history", "editor"} : Navigate(target)
    /\ UNCHANGED gameVars

DeleteWord ==
    /\ \E w \in WordUniverse : HandleDeleteWord(w.id)
    /\ UNCHANGED gameVars

Replay ==
    /\ \E i \in 1..Len(history) : HandleReplay(history[i])
    /\ UNCHANGED gameVars

LeaveReplay == HandleExitGame /\ UNCHANGED <<history, gameVars>>

NextReplay == Browse \/ DeleteWord \/ Replay \/ LeaveReplay

SpecReplay == ReplayInit /\ [][NextReplay]_vars

(***************************************************************************)
(* Specification of a matching game: handleStartGame has resolved a        *)
(* sequence, GameRunner has mounted MatchingGame and its first effects     *)
(* have run; then the user clicks, the timeouts and the interval fire,     *)
(* and the user may leave at any moment.                                   *)
(***************************************************************************)
MaxBatch == 2

\* The longest sequence a round engine is followed through.
MaxGameLength == 2

\* The theme data of the games played: one word, and two words of different content.
GamePools ==
    { <<Word("w1", <<"a">>, <<"b">>)>>,
      <<Word("w1", <<"a">>, <<"b">>), Word("w3", <<"c">>, <<"d">>)>> }

\* Timer settings of a game, in ticks: no timer, a per-question limit, a global
\* limit, and acceleration (MatchingGame runs from accelerationStart down to
\* accelerationEnd, ChoiceGame from timeLimit).  The number fields of the
\* dashboard pass on whatever number is typed, a negative one included.
TimerSetups(mode) ==
    { [timerMode |-> "none", timeLimit |-> 0, accelerationStart |-> 0, accelerationEnd |-> 0],
      [timerMode |-> "per-question", timeLimit |-> 2, accelerationStart |-> 0, accelerationEnd |-> 0],
      [timerMode |-> "per-question", timeLimit |-> -1, accelerationStart |-> 0, accelerationEnd |-> 0],
      [timerMode |-> "global", timeLimit |-> 3, accelerationStart |-> 0, accelerationEnd |-> 0],
      [timerMode |-> "acceleration",
       timeLimit |-> IF mode = "matching" THEN 3 ELSE 21,
       accelerationStart |-> 3, accelerationEnd |-> 1] }

EngineConfigs(mode) ==
    { GameConfig(wc, tq, dir, mode, t.timerMode, t.timeLimit, bs, 4,
                 t.accelerationStart, t.accelerationEnd) :
        wc \in 0..MaxWordCount, tq \in 1..MaxGameLength, dir \in Directions,
        bs \in 1..MaxBatch, t \in TimerSetups(mode) }

\* The games played: every pool in the direction ru-en, and the one-word pool
\* in the direction en-ru.
EngineInputs(mode) ==
    { in \in GamePools \X EngineConfigs(mode) :
        in[2].direction = "en-ru" => Len(in[1]) = 1 }

\* The App state in which GameRunner renders the engine of `config`.
GameStarted(raw, config, words) ==
    /\ themeData = raw
    /\ view = "game"
    /\ activeConfig = config
    /\ activeWords = words
    /\ dictionary = DictionaryFor(Deduplicate(raw), config)
    /\ totalThemeWords = Len(raw)
    /\ alertShown = "none"
    /\ allThemeWords = Deduplicate(raw)
    /\ playedWords = words
    /\ themeEdited = FALSE
    /\ history = <<>>

\* useTimer after the mount effects: timeLeft = currentLimit = timeLimit, started.
TimerMounted(config, words) ==
    /\ timeLeft = TimerParams(config, words).initialTime
    /\ currentLimit = TimerParams(config, words).initialTime
    /\ isRunning = TRUE
    /\ timeUpCalls = 0

MatchingMountedInit(config, words, total) ==
    /\ TimerMounted(config, words)
    /\ isFinished = FALSE
    /\ appCrashed = FALSE
    /\ score = 0
    /\ sessionLog = NewSessionLog(FirstSessionId, config,
                                  IF total # 0 THEN total ELSE Len(words))
    /\ correctAnswers = 0
    /\ roundIndex = 0
    /\ items \in RoundLayouts(BatchAt(words, config, 0),
                               DictionaryFor(Deduplicate(themeData), config), config, 0)
    /\ selectedLeft = FirstLeft(items)
    /\ selectedRight = Null
    /\ matchesInRound = <<>>
    /\ incorrectCount = 0
    /\ hasSaved = FALSE
    /\ isTransitioning = FALSE
    /\ advancePending = NoTimeout
    /\ firedRounds = <<>>

MatchingGamesOver(inputs) ==
    \E in \in inputs :
    \E shuffled \in Shuffles(Deduplicate(in[1])) :
    \E sequence \in FillSequences(SubsetOf(shuffled, in[2]), QuestionCount(in[2])) :
        /\ GameStarted(in[1], in[2], ApplyDirection(sequence, in[2]))
        /\ subset = SubsetOf(shuffled, in[2])
        /\ MatchingMountedInit(in[2], ApplyDirection(sequence, in[2]), Len(in[1]))
        /\ ChoiceIdle

MatchingGames == MatchingGamesOver(EngineInputs("matching"))

MatchInit == storageFull = FALSE /\ MatchingGames

ItemClick == \E k \in 1..Len(items) : HandleItemClick(k)

NextMatch ==
    \/ ItemClick
    \/ FeedbackTimeout
    \/ AdvanceTimeout
    \/ MatchingTick
    \/ MatchingExit

SpecMatch == MatchInit /\ [][NextMatch]_vars

\* The 400 ms timeout of the feedback effect is cleared only when the items
\* change or the component unmounts: while it stays armed it fires.
SpecMatchFair == SpecMatch /\ WF_vars(FeedbackTimeout)

(***************************************************************************)
(* Specification of a choice game: GameRunner has mounted ChoiceGame and   *)
(* the first batch is on screen.                                           *)
(***************************************************************************)
ChoiceMountedInit(config, words) ==
    /\ TimerMounted(config, words)
    /\ isFinished = FALSE
    /\ appCrashed = FALSE
    /\ score = 0
    /\ sessionLog = NewSessionLog(FirstSessionId, config, Len(words))
    /\ correctAnswers = 0
    /\ batchIndex = 0
    /\ mistakes = 0
    /\ currentBatch = ChoiceBatchAt(words, config, 0)
    /\ options \in OptionLayouts(currentBatch,
                                  DictionaryFor(Deduplicate(themeData), config), config)
    /\ selectedQuestionId = IF Len(currentBatch) = 1 THEN currentBatch[1].id ELSE Null
    /\ resolvedIds = {}
    /\ wrongIds = {}
    /\ correctMatchIds = {}
    /\ taintedQuestionIds = {}
    /\ advanceTimer = FALSE
    /\ wrongGuessed = {}
    /\ ignoredOption = Null

ChoiceGamesOver(inputs) ==
    \E in \in inputs :
    \E shuffled \in Shuffles(Deduplicate(in[1])) :
    \E sequence \in FillSequences(SubsetOf(shuffled, in[2]), QuestionCount(in[2])) :
        /\ GameStarted(in[1], in[2], ApplyDirection(sequence, in[2]))
        /\ subset = SubsetOf(shuffled, in[2])
        /\ ChoiceMountedInit(in[2], ApplyDirection(sequence, in[2]))
        /\ MatchingIdle

ChoiceGames == ChoiceGamesOver(EngineInputs("one-of-n"))

ChoiceInit == storageFull = FALSE /\ ChoiceGames

QuestionClick == \E w \in Range(currentBatch) : HandleQuestionClick(w.id)

OptionClick == \E w \in Range(options) : HandleOptionClick(w.id)

NextChoice ==
    \/ QuestionClick
    \/ OptionClick
    \/ ChoiceAdvanceTimeout
    \/ ChoiceTick
    \/ HandleManualExit
    \/ ChoiceExit

SpecChoice == ChoiceInit /\ [][NextChoice]_vars

(***************************************************************************)
(* Properties of the word pool resolver (Spec).                            *)
(***************************************************************************)
\* handleStartGame has handed a fresh (non-replay) sequence to the round engine.
Started == view = "game" /\ ~activeConfig.isReplay

SameContent(a, b) ==
    /\ ToLowerCase(Trim(a.val[1])) = ToLowerCase(Trim(b.val[1]))
    /\ ToLowerCase(Trim(a.val[2])) = ToLowerCase(Trim(b.val[2]))

\* The positions of the raw pool that hold the first occurrence of their content.
FirstOccurrences(raw) ==
    { i \in 1..Len(raw) : \A j \in 1..(i - 1) : ~SameContent(raw[j], raw[i]) }

\* C2: after deduplication no two pool entries share a content key, the entry
\* kept for a content is its first occurrence, and the kept entries are in
\* their original relative order.
C2_DedupFirstWins ==
    Started =>
        /\ \A i, j \in 1..Len(allThemeWords) :
              i # j => ~SameContent(allThemeWords[i], allThemeWords[j])
        /\ Len(allThemeWords) = Cardinality(FirstOccurrences(themeData))
        /\ \E f \in [1..Len(allThemeWords) -> FirstOccurrences(themeData)] :
              /\ \A i, j \in 1..Len(allThemeWords) : i < j => f[i] < f[j]
              /\ \A i \in 1..Len(allThemeWords) : allThemeWords[i] = themeData[f[i]]

\* Two stored words differ only by case and blanks, and one of them is dropped.
C2_Witness ==
    /\ Started
    /\ Len(themeData) = 2 /\ themeData[1] # themeData[2]
    /\ allThemeWords = <<themeData[1]>>

\* C3: every element of the resolved sequence has the id of a word of the subset.
C3_IdMembership ==
    (Started /\ subset # <<>>) =>
        \A i \in 1..Len(activeWords) : \E w \in Range(subset) : activeWords[i].id = w.id

(***************************************************************************)
(* Properties of replay (SpecReplay).                                      *)
(***************************************************************************)
Replaying == view = "game" /\ activeConfig.isReplay

ReplayedSession ==
    CHOOSE s \in Range(history) : s.id = activeConfig.replaySessionId

HasWordId(pool, wordId) == \E w \in Range(pool) : w.id = wordId

C8_Reconstructed ==
    Replaying =>
        /\ Len(activeWords) = Len(ReplayedSession.questions)
        /\ \A i \in 1..Len(activeWords) :
              LET wordId == ReplayedSession.questions[i].wordId IN
              /\ activeWords[i].id = wordId
              /\ IF HasWordId(themeData, wordId)
                 THEN activeWords[i] \in Range(themeData)
                 ELSE activeWords[i].val = << <<"?">>, <<"Error: Word Removed">> >>

C8_RoundStarts ==
    \A i \in 1..Len(history) :
        (HandleReplay(history[i]) /\ Len(history[i].questions) > 0
                                  /\ alertShown' # "replayError")
            => view' = "game" /\ Len(activeWords') = Len(history[i].questions)

\* C8: replay keeps length and order: one word per logged question, in the
\* logged order, carrying the logged id; a logged id that is absent from the
\* theme data gets the placeholder word at its position, and whenever the
\* themes load the round starts.
C8_ReplayKeepsLengthAndOrder == []C8_Reconstructed /\ [][C8_RoundStarts]_vars

\* A replay has started although a logged word was deleted: the placeholder
\* stands at its position, between or beside words that still resolve.
C8_Witness ==
    /\ Replaying
    /\ themeEdited
    /\ Len(activeWords) >= 2
    /\ \E i, j \in 1..Len(activeWords) :
          /\ ~HasWordId(themeData, activeWords[i].id)
          /\ activeWords[i].val[1] = <<"?">>
          /\ HasWordId(themeData, activeWords[j].id)

\* C9: replaying a session of a finished game over unchanged theme data
\* reconstructs exactly the sequence that was played.
C9_RoundTrip ==
    (Replaying /\ ~themeEdited) => activeWords = playedWords

(***************************************************************************)
(* Properties of the choice game (SpecChoice).                             *)
(***************************************************************************)
\* The step resolves the selected question of the batch on screen.
C4_Resolves ==
    /\ ChoiceMounted
    /\ selectedQuestionId # Null
    /\ selectedQuestionId \notin resolvedIds
    /\ batchIndex' = batchIndex
    /\ resolvedIds' = resolvedIds \cup {selectedQuestionId}

\* C4: a question that got a wrong option click in its batch before it is
\* answered correctly adds 0 to the score when it is resolved, a question
\* answered correctly at its first attempt adds exactly 1, and nothing else
\* changes the score.
C4_TaintedScoring ==
    [][IF C4_Resolves
       THEN score' = score + (IF selectedQuestionId \in wrongGuessed THEN 0 ELSE 1)
       ELSE score' = score]_vars

\* Batch size 1, one wrong guess, then the correct guess: mistakes 1, score 0.
C4_Witness ==
    /\ ChoiceMounted
    /\ activeConfig.batchSize = 1
    /\ batchIndex = 0
    /\ resolvedIds = IdsOf(currentBatch)
    /\ wrongGuessed = IdsOf(currentBatch)
    /\ mistakes = 1
    /\ score = 0

(***************************************************************************)
(* Properties of the matching game (SpecMatch).                            *)
(***************************************************************************)
\* C5: the completion timeout of a round runs once per batch, in the order of
\* the batches, and is pending only while the matched set has the size of the
\* batch on screen and holds ids of that round instance only; a round that is
\* complete has its timeout pending.  In particular the matched set of round
\* r, not yet cleared, never arms the timeout of round r + 1.
C5_CompletionOncePerRound ==
    /\ \A i \in 1..Len(firedRounds) : firedRounds[i] = i - 1
    /\ advancePending.pending =>
          /\ advancePending.round = roundIndex
          /\ advancePending.round = Len(firedRounds)
          /\ Len(matchesInRound) =
                Len(BatchAt(playedWords, sessionLog.config, advancePending.round))
          /\ \A id \in Range(matchesInRound) : id[4] = advancePending.round
    /\ (MatchingMounted /\ ~isFinished /\ Len(matchesInRound) = Len(CurrentBatch))
          => advancePending.pending

\* The second of two rounds of equal size is on screen, its matched set is
\* empty again and no timeout is pending; later both timeouts have run and the
\* session is saved.
C5_Witness ==
    /\ MatchingMounted
    /\ firedRounds = <<0>>
    /\ roundIndex = 1
    /\ Len(BatchAt(activeWords, activeConfig, 0)) = Len(CurrentBatch)
    /\ matchesInRound = <<>>
    /\ ~advancePending.pending
    /\ ~isTransitioning

(***************************************************************************)
(* Properties of both round engines.                                       *)
(***************************************************************************)
\* C6: in acceleration mode, after k correct answers the timer's currentLimit
\* is max(initial - k * step, minTime) for the initial, step and minTime the
\* engine passed to the timer.
C6_LimitAfterCorrectAnswers ==
    (view = "game" /\ activeConfig.timerMode = "acceleration") =>
        LET params == TimerParams(activeConfig, activeWords) IN
        currentLimit = Max(params.initialTime - correctAnswers * params.step,
                           params.minTime)

\* C7: leaving through the exit control while the game is not finished writes
\* the session, with the score reached so far, to the history store.
C7_EarlyExitPersists ==
    [][(view = "game" /\ view' # "game" /\ ~isFinished) =>
          /\ Len(history') = Len(history) + 1
          /\ history'[Len(history')].id = sessionLog.id
          /\ history'[Len(history')].score = score]_vars

\* C10: the session of a game is never in the history store twice, and it is
\* there once the game has ended, whether by completion, time-up, the end of
\* the sequence or manual exit.
C10_WrittenExactlyOnce ==
    LET written == Cardinality({ i \in 1..Len(history) : history[i].id = sessionLog.id })
    IN  /\ written <= 1
        /\ (isFinished \/ view # "game") => written = 1

(***************************************************************************)
(* Specification of the history store: the history view is open and        *)
(* HistoryManager is called with session records and session ids.          *)
(***************************************************************************)
MaxHistory == 3

SessionIds == {FirstSessionId, FirstSessionId + 1}

\* The records handed to the store: two ids, each with several results.
StoreSessions ==
    { [NewSessionLog(id, NoConfig, 1) EXCEPT !.score = sc, !.mistakes = m] :
        id \in SessionIds, sc \in 0..1, m \in 0..1 }

\* HistoryManager.deleteSession(id): history.filter(s => s.id !== id)
DeleteSession(store, id) ==
    FilterSeq(store, { s \in Range(store) : s.id # id })

HistoryInit ==
    /\ themeData = <<>>
    /\ view = "history"
    /\ activeConfig = NoConfig
    /\ activeWords = <<>>
    /\ dictionary = <<>>
    /\ totalThemeWords = 0
    /\ alertShown = "none"
    /\ allThemeWords = <<>>
    /\ subset = <<>>
    /\ playedWords = <<>>
    /\ themeEdited = FALSE
    /\ history = <<>>
    /\ storageFull = FALSE
    /\ GameIdle

\* HistoryManager.saveSession(session)
SaveSessionCall ==
    /\ Len(history) < MaxHistory
    /\ \E session \in StoreSessions : history' = Persist(history, session)
    /\ UNCHANGED <<appVars, gameVars>>

\* HistoryManager.deleteSession(id)
DeleteSessionCall ==
    /\ \E id \in SessionIds : history' = DeleteSession(history, id)
    /\ UNCHANGED <<appVars, gameVars>>

NextHistory == SaveSessionCall \/ DeleteSessionCall

SpecHistory == HistoryInit /\ [][NextHistory]_vars

(***************************************************************************)
(* Properties of the history store (SpecHistory).                          *)
(***************************************************************************)
\* C11 (as stated): persisting is idempotent per session id: a persist of an id
\* that is already stored changes nothing, so the history never holds two
\* records with the same id.
C11_OneRecordPerId ==
    \A i, j \in 1..Len(history) : history[i].id = history[j].id => i = j

(***************************************************************************)
(* Specification of a game played while localStorage refuses every write   *)
(* (quota exceeded, storage disabled): either engine is mounted.           *)
(***************************************************************************)
StorageFullInit == storageFull = TRUE /\ (MatchingGames \/ ChoiceGames)

NextGames == NextMatch \/ NextChoice

SpecStorageFull == StorageFullInit /\ [][NextGames]_vars

(***************************************************************************)
(* Properties of a game without storage (SpecStorageFull).                 *)
(***************************************************************************)
\* C12 (as stated): a history write that throws does not crash or block the
\* round: the error is caught, the component tree stays mounted, the stored
\* history is as it was, and a write that failed while the engine was on screen
\* leaves the engine on its result screen.
C12_FailureTolerated ==
    /\ ~appCrashed
    /\ history = <<>>
    /\ (MatchingMounted /\ hasSaved) => isFinished

(***************************************************************************)
(* Further properties of the word pool resolver (Spec).                    *)
(***************************************************************************)
\* C13: when the selected themes yield no word, or loading them fails,
\* handleStartGame reports it and no round starts: the view is not the game
\* and neither a configuration nor a word sequence is active.
C13_EmptyPoolNeverStarts ==
    (themeData = <<>> \/ alertShown \in {"noWords", "loadError"}) =>
        /\ view # "game"
        /\ activeConfig = NoConfig
        /\ activeWords = <<>>

\* handleStartGame has run over themes without words and has reported it.
C13_Witness ==
    themeData = <<>> /\ alertShown = "noWords" /\ view = "dashboard"

(***************************************************************************)
(* Specification of a game in either engine, with working storage.         *)
(***************************************************************************)
GamesInit == storageFull = FALSE /\ (MatchingGames \/ ChoiceGames)

SpecGames == GamesInit /\ [][NextGames]_vars

\* A timeout handed to setTimeout runs once its delay is over unless it is
\* cleared: the advance timeouts of both engines fire while they are pending.
SpecGamesFair ==
    SpecGames /\ WF_vars(AdvanceTimeout) /\ WF_vars(ChoiceAdvanceTimeout)

(***************************************************************************)
(* Properties of the timer in both round engines (SpecGames).              *)
(***************************************************************************)
\* C14: a time-up that fires when the round has already finished is a guarded
\* no-op: the interval's call of onTimeUp changes no state of the game and
\* writes nothing to the history.
C14_TimeUpAfterFinishIsNoOp ==
    [][(isFinished /\ timeUpCalls' # timeUpCalls) =>
          UNCHANGED <<history, engineVars, matchVars, choiceVars>>]_vars

\* The choice game was completed with a score, its timer kept running and has
\* then expired on the result screen.
C14_Witness ==
    /\ ChoiceMounted
    /\ isFinished
    /\ timeUpCalls = 1
    /\ Len(history) = 1
    /\ history[1].score >= 1

(***************************************************************************)
(* Further properties of the choice game (SpecChoice).                     *)
(***************************************************************************)
\* C15 (as stated): a batch that holds the same word more than once can still
\* be completed: once every question of the batch on screen is resolved, the
\* engine is on its way to the next batch.
C15_ResolvedBatchAdvances ==
    (/\ ChoiceMounted
     /\ ~isFinished
     /\ currentBatch # <<>>
     /\ IdsOf(currentBatch) \subseteq resolvedIds) => advanceTimer

(***************************************************************************)
(* Further properties of the timer in both round engines (SpecGames).      *)
(***************************************************************************)
\* C16 (as stated): in every state of a timer in use, the initial one
\* included, currentLimit is not below the minTime the engine handed to
\* useTimer.
C16_LimitNeverBelowMinimum ==
    (view = "game" /\ activeConfig.timerMode # "none") =>
        currentLimit >= TimerParams(activeConfig, activeWords).minTime

\* C17 (as stated): timeLeft is never negative.
C17_TimeLeftNeverNegative == timeLeft >= 0

\* C18: a running timer that reaches zero stops and calls onTimeUp once: every
\* call of onTimeUp is one call, made by a tick of a running timer in a mode
\* other than none that leaves timeLeft at zero and the timer stopped; and
\* while the timer is stopped nothing ticks or calls onTimeUp until a reset
\* puts timeLeft back to currentLimit and starts the timer.
C18_ExpiryStopsAndCallsOnce ==
    [][/\ (timeUpCalls' # timeUpCalls) =>
            /\ timeUpCalls' = timeUpCalls + 1
            /\ isRunning
            /\ sessionLog.config.timerMode # "none"
            /\ timeLeft' = 0
            /\ ~isRunning'
       /\ (~isRunning /\ (timeLeft' # timeLeft \/ timeUpCalls' # timeUpCalls)) =>
            /\ timeLeft' = currentLimit
            /\ isRunning'
            /\ timeUpCalls' = timeUpCalls]_vars

\* A timer has run down during play and is stopped at zero after its one call.
C18_Witness ==
    /\ view = "game"
    /\ timeUpCalls = 1
    /\ timeLeft = 0
    /\ ~isRunning
    /\ correctAnswers >= 1

\* C19 (as stated): once a round is finished or its engine is gone, the
\* countdown is cancelled: no interval of a timer in use is running.
C19_TimerCancelledAfterFinish ==
    (isFinished \/ view # "game") =>
        ~(isRunning /\ sessionLog.config.timerMode # "none")

(***************************************************************************)
(* Further properties of both round engines (SpecGames).                   *)
(***************************************************************************)
\* C20 (as stated): whenever a session is written to the history, its score
\* and its mistakes are the engine's score and mistake count of that moment,
\* the totals of the result screen.
C20_PersistedTotalsAreCurrent ==
    [][Len(history') = Len(history) + 1 =>
          LET written == history'[Len(history')] IN
          /\ written.score = score'
          /\ written.mistakes = IF written.config.mode = "matching"
                                THEN incorrectCount' ELSE mistakes']_vars

(***************************************************************************)
(* Further properties of the matching game (SpecMatch).                    *)
(***************************************************************************)
\* The left items of the round on screen that are not matched, in order.
UnmatchedLeft(its) ==
    FilterSeq(its, { it \in Range(its) : it.side = "left" /\ it.state # "matched" })

\* C21: once a transition has settled, an unfinished game with an incomplete
\* round and no feedback on screen has a left item selected; the selected left
\* item is never a matched one; and a selection made by the engine (after a
\* match, after the feedback has cleared, at the start of a round) is the
\* first unmatched left item of the round.
C21_AutoSelect ==
    /\ [](MatchingMounted =>
            /\ (/\ ~isFinished
                /\ Len(matchesInRound) # Len(CurrentBatch)
                /\ ~FeedbackActive(items)) => selectedLeft # Null
            /\ selectedLeft # Null =>
                  \E it \in Range(UnmatchedLeft(items)) : it.id = selectedLeft)
    /\ [][(/\ MatchingMounted'
           /\ selectedLeft = Null \/ roundIndex' # roundIndex
           /\ selectedLeft' # Null) =>
              selectedLeft' = UnmatchedLeft(items')[1].id]_vars

\* The first pair of a round of two has been matched and the engine has moved
\* the selection to the left item that is still open.
C21_Witness ==
    /\ MatchingMounted
    /\ ~isFinished
    /\ Len(CurrentBatch) = 2
    /\ Len(matchesInRound) = 1
    /\ ~FeedbackActive(items)
    /\ selectedLeft # Null

\* C22: an evaluation that finds a match (the only step that changes the
\* score) takes an open left and an open right item with equal matchKey, marks
\* exactly these two matched, adds the left id to the matched-set, leaves no
\* right item and not the matched left item selected, adds exactly 1 to the
\* score and nothing to the mistakes; in acceleration mode the limit is
\* accelerated and the countdown reset, in per-question mode the countdown is
\* reset, and in the modes global and none the timer is untouched.
C22_MatchEvaluation ==
    [][(MatchingMounted /\ score' # score) =>
          \E l, r \in 1..Len(items) :
             /\ items[l].side = "left" /\ items[l].state # "matched"
             /\ items[r].side = "right" /\ items[r].state # "matched"
             /\ items[l].matchKey = items[r].matchKey
             /\ items' = [i \in 1..Len(items) |->
                            IF i \in {l, r} THEN [items[i] EXCEPT !.state = "matched"]
                            ELSE items[i]]
             /\ items[l].id \notin Range(matchesInRound)
             /\ matchesInRound' = Append(matchesInRound, items[l].id)
             /\ selectedRight' = Null
             /\ selectedLeft' # items[l].id
             /\ score' = score + 1
             /\ incorrectCount' = incorrectCount
             /\ LET params == TimerParams(activeConfig, activeWords) IN
                CASE activeConfig.timerMode = "acceleration" ->
                       /\ currentLimit' = Max(currentLimit - params.step, params.minTime)
                       /\ timeLeft' = currentLimit
                       /\ isRunning'
                  [] activeConfig.timerMode = "per-question" ->
                       /\ currentLimit' = currentLimit
                       /\ timeLeft' = currentLimit
                       /\ isRunning'
                  [] OTHER -> UNCHANGED timerVars]_vars

\* A pair has been matched in acceleration mode and the limit has shrunk.
C22_Witness ==
    /\ MatchingMounted
    /\ activeConfig.timerMode = "acceleration"
    /\ score = 1
    /\ Len(matchesInRound) = 1
    /\ currentLimit < TimerParams(activeConfig, activeWords).initialTime
    /\ \E it \in Range(items) : it.side = "right" /\ it.state = "matched"

\* C23: an evaluation that finds a mismatch (the only step that changes the
\* mistake count) takes a left and a right item with different matchKey, flags
\* these two error and one right item with the left item's matchKey
\* success-hint, leaves every other item as it was, adds exactly 1 to the
\* mistakes, leaves the score and the matched-set alone and clears both
\* selections.
C23_MismatchEvaluation ==
    [][(MatchingMounted /\ incorrectCount' # incorrectCount) =>
          \E l, r, h \in 1..Len(items) :
             /\ items[l].side = "left" /\ items[r].side = "right" /\ items[h].side = "right"
             /\ items[l].matchKey # items[r].matchKey
             /\ items[h].matchKey = items[l].matchKey
             /\ items' = [i \in 1..Len(items) |->
                            IF i \in {l, r} THEN [items[i] EXCEPT !.state = "error"]
                            ELSE IF i = h THEN [items[i] EXCEPT !.state = "success-hint"]
                            ELSE items[i]]
             /\ incorrectCount' = incorrectCount + 1
             /\ score' = score
             /\ matchesInRound' = matchesInRound
             /\ selectedLeft' = Null
             /\ selectedRight' = Null]_vars

\* A wrong pair is on screen in red with the right answer in green.
C23_Witness ==
    /\ MatchingMounted
    /\ incorrectCount = 1
    /\ selectedLeft = Null
    /\ \E it \in Range(items) : it.side = "left" /\ it.state = "error"
    /\ \E it \in Range(items) : it.side = "right" /\ it.state = "error"
    /\ \E it \in Range(items) : it.side = "right" /\ it.state = "success-hint"

(***************************************************************************)
(* Properties of the matching game under fairness (SpecMatchFair).         *)
(***************************************************************************)
\* An item of the round on screen is red (error) or green (success-hint).
ShowsFeedback == \E it \in Range(items) : it.state \in {"error", "success-hint"}

\* C24: while an item shows error or success-hint, no click changes anything:
\* the only change of the items is the one that puts every such item back to
\* default and leaves the others alone, and until then the selections, the
\* score, the mistakes and the matched-set stay as they are; and the feedback
\* always ends while the engine is mounted.
C24_FeedbackWindow ==
    /\ [][(MatchingMounted /\ ShowsFeedback /\ MatchingMounted') =>
            \/ /\ items' = items
               /\ UNCHANGED <<selectedLeft, selectedRight, score, incorrectCount,
                              matchesInRound, roundIndex>>
            \/ /\ items' = [i \in 1..Len(items) |->
                              IF items[i].state \in {"error", "success-hint"}
                              THEN [items[i] EXCEPT !.state = "default"] ELSE items[i]]
               /\ UNCHANGED <<selectedRight, score, incorrectCount, matchesInRound,
                              roundIndex>>]_vars
    /\ (MatchingMounted /\ ShowsFeedback) ~> (~MatchingMounted \/ ~ShowsFeedback)

\* The feedback of a mismatch has cleared and play has gone on to a match.
C24_Witness ==
    /\ MatchingMounted
    /\ incorrectCount = 1
    /\ ~ShowsFeedback
    /\ score >= 1
    /\ selectedLeft # Null

(***************************************************************************)
(* Further properties of the matching game (SpecMatch).                    *)
(***************************************************************************)
\* The step has evaluated a pair that holds item k: it has scored or counted
\* a mistake, and item k is now matched or red.
Evaluated(k) ==
    /\ score' = score + 1 \/ incorrectCount' = incorrectCount + 1
    /\ items'[k].state \in {"matched", "error"}

\* C25: a click on a matched item or in a finished game changes nothing; a
\* click on an open left item that is not the selected one selects it, and
\* evaluates the pair when a right item is pending; a click on the pending
\* right item deselects it and evaluates nothing; a click on another right
\* item while a left item is selected evaluates the pair.
C25_SelectionRules ==
    [][\A k \in 1..Len(items) :
          HandleItemClick(k) =>
             LET item == items[k]
                 open == ~isFinished /\ item.state # "matched" /\ ~ShowsFeedback
             IN  /\ (isFinished \/ item.state = "matched") => UNCHANGED vars
                 /\ (open /\ item.side = "left" /\ selectedLeft # item.id) =>
                       IF selectedRight = Null
                       THEN /\ selectedLeft' = item.id
                            /\ UNCHANGED <<items, selectedRight, score, incorrectCount,
                                           matchesInRound>>
                       ELSE Evaluated(k)
                 /\ (open /\ item.side = "right" /\ selectedRight = item.id) =>
                       /\ selectedRight' = Null
                       /\ UNCHANGED <<items, selectedLeft, score, incorrectCount,
                                      matchesInRound>>
                 /\ (open /\ item.side = "right" /\ selectedRight # item.id
                          /\ selectedLeft # Null) => Evaluated(k)]_vars

\* The user has moved the left selection from the auto-selected first item to
\* the second left item of the round.
C25_Witness ==
    /\ MatchingMounted
    /\ ~isFinished
    /\ score = 0
    /\ incorrectCount = 0
    /\ selectedLeft # Null
    /\ selectedLeft # UnmatchedLeft(items)[1].id

(***************************************************************************)
(* Specification of the rounds and batches of a game over three words,     *)
(* with two or four variants asked for, or (MatchingGame) none configured: *)
(* the dictionary can hold more words than a round shows.  Four is the     *)
(* least value of the Dashboard slider; the smaller values are those a     *)
(* stored configuration (saved settings, a replayed session) can carry.    *)
(***************************************************************************)
OptionInputs(mode) ==
    { in \in
        { <<pool, GameConfig(0, tq, dir, mode, tm.timerMode, tm.timeLimit, bs, oc, 0, 0)>> :
            pool \in { <<Word("w1", <<"a">>, <<"b">>), Word("w3", <<"c">>, <<"d">>),
                         Word("w4", <<"e">>, <<"f">>)>> },
            dir \in Directions,
            tm \in { t \in TimerSetups(mode) : t.timerMode \in {"none", "global"} },
            bs \in 1..MaxBatch,
            tq \in 1..MaxBatch,
            oc \in IF mode = "matching" THEN {0, 2, 4} ELSE {2, 4} } :
        /\ in[2].timerMode = "global" =>
               (in[2].batchSize = 1 /\ in[2].optionsCount = 2 /\ in[2].direction = "ru-en")
        /\ in[2].direction = "en-ru" => in[2].batchSize = 1
        /\ in[2].totalQuestions # in[2].batchSize =>
               (in[2].batchSize = 1 /\ in[2].optionsCount = 2 /\ in[2].direction = "ru-en"
                /\ in[2].timerMode = "none")
        /\ in[2].batchSize = MaxBatch => in[2].optionsCount # 0 }

OptionsInit ==
    /\ storageFull = FALSE
    /\ \/ MatchingGamesOver(OptionInputs("matching"))
       \/ ChoiceGamesOver(OptionInputs("one-of-n"))

SpecOptions == OptionsInit /\ [][NextGames]_vars


(***************************************************************************)
(* Properties of the options a round or batch shows (SpecOptions).         *)
(***************************************************************************)
\* The id a word has in the dictionary: the id without the suffix that a
\* swapped direction appends to the words of the sequence.
DictionaryId(id) ==
    IF Len(id) > 1 /\ id[Len(id)] = "_dir" THEN SubSeq(id, 1, Len(id) - 1) ELSE id

\* The number of dictionary words that are not words of the batch.
WordsOutside(batch, dict) ==
    Cardinality({ i \in 1..Len(dict) :
                    \A b \in Range(batch) : DictionaryId(b.id) # DictionaryId(dict[i].id) })

\* The size the right side or the option set is to have.
ExpectedOptionCount(batch, dict, config) ==
    Min(Max(Len(batch), config.optionsCount), Len(batch) + WordsOutside(batch, dict))

SideOf(its, side) == { k \in 1..Len(its) : its[k].side = side }

\* The items on screen are those of a round over `batch`.
RoundOf(its, batch, dict, config, r) ==
    /\ Cardinality(SideOf(its, "left")) = Len(batch)
    /\ \A i \in 1..Len(batch) :
          \E k \in SideOf(its, "left") : its[k].id = <<"L", batch[i].id, i - 1, r>>
    /\ \A i \in 1..Len(batch) :
          \E k \in SideOf(its, "right") : its[k].id = <<"R", batch[i].id, i - 1, r>>
    /\ \A k \in SideOf(its, "right") :
          \/ its[k].id[3] < Len(batch) /\ its[k].id[2] = batch[its[k].id[3] + 1].id
          \/ /\ its[k].id[3] >= Len(batch)
             /\ \E w \in Range(dict) : w.id = its[k].id[2]
             /\ \A b \in Range(batch) : DictionaryId(b.id) # DictionaryId(its[k].id[2])
    /\ Cardinality(SideOf(its, "right")) = ExpectedOptionCount(batch, dict, config)

RoundStarted ==
    /\ matchesInRound = <<>>
    /\ selectedRight = Null
    /\ \E k \in SideOf(items, "left") : items[k].id = selectedLeft

RightSideByRawId ==
    (MatchingMounted /\ ~isFinished) =>
        /\ \A k \in SideOf(items, "right") :
              items[k].id[3] >= Len(CurrentBatch) =>
                  \A b \in Range(CurrentBatch) : b.id # items[k].id[2]
        /\ Cardinality(SideOf(items, "right")) =
              Min(Max(Len(CurrentBatch), activeConfig.optionsCount),
                  Len(CurrentBatch)
                    + Cardinality({ i \in 1..Len(dictionary) :
                          \A b \in Range(CurrentBatch) : b.id # dictionary[i].id }))


\* The options on screen are those of a batch.
OptionsOf(opts, batch, dict, config) ==
    /\ \A q \in Range(batch) : \E k \in 1..Len(opts) : opts[k].id = q.id
    /\ \E correct \in SUBSET (1..Len(opts)) :
          /\ Cardinality(correct) = Len(batch)
          /\ \A q \in Range(batch) : \E k \in correct : opts[k] = q
          /\ \A k \in (1..Len(opts)) \ correct :
                /\ opts[k] \in Range(dict)
                /\ \A b \in Range(batch) : DictionaryId(b.id) # DictionaryId(opts[k].id)
    /\ Len(opts) = ExpectedOptionCount(batch, dict, config)

BatchStarted ==
    /\ resolvedIds = {}
    /\ correctMatchIds = {}
    /\ wrongIds = {}
    /\ taintedQuestionIds = {}

PairEvaluated(q, o) ==
    IF o = q
    THEN resolvedIds' = resolvedIds \cup {q} /\ mistakes' = mistakes
    ELSE mistakes' = mistakes + 1 /\ resolvedIds' = resolvedIds

\* C28 (as stated): a click on an open option while a question is selected
\* evaluates the two, and so does a click on an open question that follows a
\* click on an option made while no question was selected; the pair is judged
\* correct iff the option's id is the question's id.
C28_EitherClickOrder ==
    [][/\ \A o \in IdsOf(options) :
            (/\ HandleOptionClick(o)
             /\ selectedQuestionId # Null
             /\ o \notin correctMatchIds) => PairEvaluated(selectedQuestionId, o)
       /\ \A q \in IdsOf(currentBatch) :
            (/\ HandleQuestionClick(q)
             /\ ignoredOption # Null
             /\ q \notin resolvedIds) => PairEvaluated(q, ignoredOption)]_vars


\* The questions of the batch on screen that are not resolved, by position.
OpenQuestions(batch, resolved) == { i \in 1..Len(batch) : batch[i].id \notin resolved }

\* The selection a batch starts with.
StartsSelected(batch, selected) ==
    IF Len(batch) = 1 THEN selected = batch[1].id ELSE selected = Null

WrongOptionClick(o) ==
    /\ HandleOptionClick(o)
    /\ selectedQuestionId # Null
    /\ o \notin correctMatchIds
    /\ o # selectedQuestionId

\* C30 (as stated): a wrong option click adds exactly 1 to the mistake count,
\* taints the selected question, flags the clicked option as error, leaves the
\* score and the resolved set as they are, and leaves no question selected.
C30_WrongOptionClick ==
    [][\A o \in IdsOf(options) :
          WrongOptionClick(o) =>
              /\ mistakes' = mistakes + 1
              /\ selectedQuestionId \in taintedQuestionIds'
              /\ o \in wrongIds'
              /\ score' = score
              /\ resolvedIds' = resolvedIds
              /\ selectedQuestionId' = Null]_vars


(***************************************************************************)
(* Further properties of the timer (SpecGames).                            *)
(***************************************************************************)
\* C31 (as stated): reset() leaves timeLeft at the currentLimit in force once
\* the handler is done: after a correct match in acceleration mode that is the
\* new, decreased limit; after a correct match in per-question mode and at the
\* start of a choice batch it is the unchanged limit.
C31_ResetSnapsToCurrentLimit ==
    [][/\ (/\ MatchingMounted
           /\ score' = score + 1
           /\ activeConfig.timerMode \in {"acceleration", "per-question"})
              => timeLeft' = currentLimit'
       /\ (ChoiceMounted /\ ChoiceMounted' /\ ~isFinished' /\ batchIndex' # batchIndex)
              => timeLeft' = currentLimit']_vars


\* Every question of the sequence has been resolved and the last round or
\* batch is the one on screen.
SequenceCompleted ==
    IF activeConfig.mode = "matching"
    THEN /\ roundIndex >= BatchCount(activeWords, activeConfig) - 1
         /\ Len(matchesInRound) = Len(CurrentBatch)
    ELSE /\ ChoiceBatchAt(activeWords, activeConfig, batchIndex + 1) = <<>>
         /\ IdsOf(currentBatch) \subseteq resolvedIds

\* C32: in timer mode none no step of a game decrements timeLeft or calls the
\* time-up callback, whatever start() and reset() have done, and the game
\* finishes only when the sequence is completed (or is left by an exit).
C32_ModeNoneIsInert ==
    [][(view = "game" /\ activeConfig.timerMode = "none") =>
          /\ timeLeft' >= timeLeft
          /\ timeUpCalls' = timeUpCalls
          /\ (~isFinished /\ isFinished') => SequenceCompleted]_vars

\* A game without timer has been played to its end by its clicks alone, with
\* the timer started.
C32_Witness ==
    /\ view = "game"
    /\ activeConfig.timerMode = "none"
    /\ isFinished
    /\ timeUpCalls = 0
    /\ Len(history) = 1
    /\ history[1].score >= 1


(***************************************************************************)
(* Properties of the session record (SpecGames).                           *)
(***************************************************************************)
\* C33 (as stated): the question list of the session log, in the engine and
\* in every persisted record, holds one entry per question resolved during
\* play, appended when the question is resolved: at any moment it has as many
\* entries as questions have been resolved so far, and never an entry for a
\* question that was not resolved.
C33_OneQuestionLogPerResolution ==
    /\ Len(sessionLog.questions) = correctAnswers
    /\ \A i \in 1..Len(history) : Len(history[i].questions) = correctAnswers


(***************************************************************************)
(* Properties of the timeouts and of the end of a game (SpecGames).        *)
(***************************************************************************)
\* The game is finished or has been left.
GameOver == isFinished \/ view # "game"

RoundState ==
    <<roundIndex, batchIndex, items, currentBatch, options,
      selectedLeft, selectedRight, selectedQuestionId>>

\* C34 (as stated): once a game is finished or exited, no step changes the
\* round or batch index, the items or the selections, and no step writes the
\* session again: a timeout scheduled before the end has no effect.
C34_NoDanglingTimers ==
    [][GameOver => (RoundState' = RoundState /\ history' = history)]_vars


\* The game was ended by something other than the last answer: an exit, an
\* error that took the screen down, or the timer.
EndedOtherwise == view # "game" \/ appCrashed \/ timeUpCalls > 0

Persisted == \E i \in 1..Len(history) : history[i].id = sessionLog.id

\* Every pair of round r is matched.
RoundResolved(r) ==
    /\ MatchingMounted
    /\ ~isFinished
    /\ roundIndex = r
    /\ CurrentBatch # <<>>
    /\ Len(matchesInRound) = Len(CurrentBatch)
    /\ \A i \in 1..Len(matchesInRound) : matchesInRound[i][4] = r

\* Every question of batch b is resolved.
BatchResolved(b) ==
    /\ ChoiceMounted
    /\ ~isFinished
    /\ batchIndex = b
    /\ currentBatch # <<>>
    /\ IdsOf(currentBatch) \subseteq resolvedIds

\* C35 (as stated): with timeouts that fire, a round or batch whose questions
\* are all resolved is followed by the next round or batch, or after the last
\* one by the finished state with the session persisted (unless the game is
\* ended before that by an exit or by the timer).
C35_ProgressToFinalization ==
    \A n \in 0..(MaxGameLength - 1) :
        /\ RoundResolved(n) ~>
              \/ EndedOtherwise
              \/ MatchingMounted /\ ~isFinished /\ roundIndex = n + 1 /\ CurrentBatch # <<>>
              \/ MatchingMounted /\ isFinished /\ Persisted
        /\ BatchResolved(n) ~>
              \/ EndedOtherwise
              \/ ChoiceMounted /\ ~isFinished /\ batchIndex = n + 1 /\ currentBatch # <<>>
              \/ ChoiceMounted /\ isFinished /\ Persisted


(***************************************************************************)
(* Further properties of the options a round or batch shows (SpecOptions). *)
(***************************************************************************)
Instances(batch, val) == { i \in 1..Len(batch) : batch[i].val = val }

\* C36 (as stated): on every screen of either engine, in either direction,
\* the right items or options that show the content of a word of the batch
\* are as many as the batch has instances of that word: no distractor has the
\* (source, target) content of a word of the batch.
C36_UniqueCorrectAnswer ==
    /\ (MatchingMounted /\ ~isFinished) =>
          \A b \in Range(CurrentBatch) :
              Cardinality({ k \in SideOf(items, "right") : items[k].matchKey = MatchKey(b) })
                  = Cardinality(Instances(CurrentBatch, b.val))
    /\ (ChoiceMounted /\ ~isFinished) =>
          \A b \in Range(currentBatch) :
              Cardinality({ k \in 1..Len(options) : options[k].val = b.val })
                  = Cardinality(Instances(currentBatch, b.val))


(***************************************************************************)
(* Further properties of a matching round (SpecMatch).                     *)
(***************************************************************************)
\* C37 (as stated): within a round a matched item stays matched: no step that
\* keeps the round on screen takes an item out of the matched state, also in
\* a batch that holds the same word twice.
C37_MatchedIsMonotone ==
    [][(MatchingMounted /\ MatchingMounted' /\ roundIndex' = roundIndex) =>
          /\ Len(items') = Len(items)
          /\ \A k \in 1..Len(items) :
                items[k].state = "matched" =>
                    items'[k].id = items[k].id /\ items'[k].state = "matched"]_vars


(***************************************************************************)
(* Further properties of the choice game (SpecGamesFair).                  *)
(***************************************************************************)
\* The questions of the batches before batch b.
QuestionsBefore(b) ==
    Min(b * (IF activeConfig.batchSize = 0 THEN 1 ELSE activeConfig.batchSize),
        Len(activeWords))

\* C38 (as stated): the batch index of a choice game moves by steps of exactly
\* 1, each taken when every question of the batch on screen is resolved; it
\* never runs ahead of the questions answered, whatever is clicked during the
\* advance delay; and every fully resolved batch gets its step (unless the
\* game is left before the delay is over).
C38_BatchAdvanceIsExact ==
    /\ [][(ChoiceMounted /\ batchIndex' # batchIndex) =>
             /\ batchIndex' = batchIndex + 1
             /\ currentBatch # <<>>
             /\ IdsOf(currentBatch) \subseteq resolvedIds]_vars
    /\ [](ChoiceMounted => correctAnswers >= QuestionsBefore(batchIndex))
    /\ \A n \in 0..(MaxGameLength - 1) :
          BatchResolved(n) ~> (~ChoiceMounted \/ batchIndex = n + 1)


(***************************************************************************)
(* Further properties of the timer in both round engines (SpecGames).      *)
(***************************************************************************)
\* C39 (as stated): in global timer mode, in either engine, no step of a game
\* increases timeLeft: not a correct answer and not the start of a batch.
C39_GlobalTimeNeverIncreases ==
    [][(view = "game" /\ activeConfig.timerMode = "global") => timeLeft' <= timeLeft]_vars


\* C40: finished is terminal: from a finished game no step leads to a game
\* that is not finished, and no step, click or timer event, changes the score,
\* the mistake count or the persisted record.
C40_FinishedIsTerminal ==
    [][isFinished =>
          /\ isFinished'
          /\ score' = score
          /\ mistakes' = mistakes
          /\ incorrectCount' = incorrectCount
          /\ history' = history]_vars

\* A matching game was finished by the timer while the advance timeout of a
\* completed round was still pending.
C40_Witness ==
    /\ MatchingMounted
    /\ isFinished
    /\ advancePending.pending
    /\ timeUpCalls = 1
    /\ Len(history) = 1

====
